---- MODULE Spec2Model ----
(***************************************************************************)
(* Model of chatMCA/views.py: the completion client                        *)
(* (BulletproofGeminiHandler) and the rate limiter (rate_limit_check).     *)
(*                                                                         *)
(* Python strings whose content the code inspects (upstream replies,       *)
(* exception messages) are sequences of one-character strings, so that     *)
(* strip(), lower() and the `in` substring test are computed.              *)
(***************************************************************************)
EXTENDS Integers, Sequences, FiniteSets, TLC

(***************************************************************************)
(* Bounds of the model                                                     *)
(***************************************************************************)
\* longest history (in turns) handed to generate_response
MaxHistory == 9
\* largest max_attempts argument handed to generate_response
MaxAttemptsArg == 5
\* the clock stops here
MaxTime == 90
\* how many rate_limit_check calls are made in all
MaxCalls == 8
\* most messages stored for one session when build_conversation_context is
\* checked on its own
MaxMessages == 10
\* largest max_messages argument handed to build_conversation_context
MaxTurnsArg == 5
\* longest of the short texts handed to sanitize_input
MaxInputLen == 3
\* most chat_api and new_chat requests made
MaxChatCalls == 2
\* exchanges a session has stored when the web application is first looked at
MaxStored == 5

(***************************************************************************)
(* String helpers (Python str semantics on character sequences)            *)
(***************************************************************************)
\* characters str.strip() removes (the ones the model's texts use)
Whitespace == {" ", "\n", "\t"}

\* str.lstrip(): s from its first character that is not whitespace
LStrip(s) ==
    IF \A i \in 1..Len(s) : s[i] \in Whitespace THEN <<>>
    ELSE LET first == CHOOSE i \in 1..Len(s) :
                          /\ s[i] \notin Whitespace
                          /\ \A j \in 1..(i - 1) : s[j] \in Whitespace
         IN SubSeq(s, first, Len(s))

\* str.rstrip(): s up to its last character that is not whitespace
RStrip(s) ==
    IF \A i \in 1..Len(s) : s[i] \in Whitespace THEN <<>>
    ELSE LET last == CHOOSE i \in 1..Len(s) :
                         /\ s[i] \notin Whitespace
                         /\ \A j \in (i + 1)..Len(s) : s[j] \in Whitespace
         IN SubSeq(s, 1, last)

\* str.strip()
Strip(s) == RStrip(LStrip(s))

\* str.lower() on one character
LowerChar(c) ==
    CASE c = "A" -> "a" [] c = "B" -> "b" [] c = "C" -> "c" [] c = "D" -> "d"
      [] c = "E" -> "e" [] c = "F" -> "f" [] c = "G" -> "g" [] c = "H" -> "h"
      [] c = "I" -> "i" [] c = "J" -> "j" [] c = "K" -> "k" [] c = "L" -> "l"
      [] c = "M" -> "m" [] c = "N" -> "n" [] c = "O" -> "o" [] c = "P" -> "p"
      [] c = "Q" -> "q" [] c = "R" -> "r" [] c = "S" -> "s" [] c = "T" -> "t"
      [] c = "U" -> "u" [] c = "V" -> "v" [] c = "W" -> "w" [] c = "X" -> "x"
      [] c = "Y" -> "y" [] c = "Z" -> "z" [] OTHER -> c

\* str.lower()
Lower(s) == [i \in 1..Len(s) |-> LowerChar(s[i])]

\* Python's `kw in s` on strings
Contains(s, kw) ==
    \E i \in 1..(Len(s) - Len(kw) + 1) : SubSeq(s, i, i + Len(kw) - 1) = kw

(***************************************************************************)
(* Program constants                                                       *)
(***************************************************************************)
STABLE_MODELS == <<"gemini-1.5-flash", "gemini-pro", "gemini-1.5-pro">>

\* self.working_model = None
NoModel == "None"

\* the keywords of line 145
FATAL_KEYWORDS ==
    { <<"q","u","o","t","a">>, <<"b","i","l","l","i","n","g">>,
      <<"k","e","y">>, <<"a","u","t","h">> }

\* line 86: max_attempts=5
DEFAULT_MAX_ATTEMPTS == 5

\* line 231: rate_limit_check(request, max_requests=6, window=60)
CHAT_MAX_REQUESTS == 6
CHAT_WINDOW == 60

\* line 112: "Previous conversation context: "
CONTEXT_PREFIX ==
    <<"P","r","e","v","i","o","u","s"," ","c","o","n","v","e","r","s","a",
      "t","i","o","n"," ","c","o","n","t","e","x","t",":"," ">>

\* line 112: " messages exchanged.\n\nCurrent question: "
CONTEXT_MIDDLE ==
    <<" ","m","e","s","s","a","g","e","s"," ","e","x","c","h","a","n","g",
      "e","d",".","\n","\n","C","u","r","r","e","n","t"," ","q","u","e","s",
      "t","i","o","n",":"," ">>

\* str() of one decimal digit
DigitChar(d) ==
    CASE d = 0 -> "0" [] d = 1 -> "1" [] d = 2 -> "2" [] d = 3 -> "3"
      [] d = 4 -> "4" [] d = 5 -> "5" [] d = 6 -> "6" [] d = 7 -> "7"
      [] d = 8 -> "8" [] d = 9 -> "9"

\* str() of a natural number, as an f-string formats it
RECURSIVE Str(_)
Str(n) ==
    IF n < 10 THEN <<DigitChar(n)>> ELSE Str(n \div 10) \o <<DigitChar(n % 10)>>

\* "AI service is temporarily unavailable"
MSG_UNAVAILABLE ==
    <<"A","I"," ","s","e","r","v","i","c","e"," ","i","s"," ","t","e","m","p",
      "o","r","a","r","i","l","y"," ","u","n","a","v","a","i","l","a","b","l",
      "e">>

\* "Unable to get response after multiple attempts"
MSG_EXHAUSTED ==
    <<"U","n","a","b","l","e"," ","t","o"," ","g","e","t"," ","r","e","s","p",
      "o","n","s","e"," ","a","f","t","e","r"," ","m","u","l","t","i","p","l",
      "e"," ","a","t","t","e","m","p","t","s">>

(***************************************************************************)
(* The upstream API: what one generate_content call can do                 *)
(***************************************************************************)
\* messages of the exceptions the upstream call raises
UpstreamErrors ==
    { <<"Q","u","o","t","a"," ","e","x","c","e","e","d","e","d">>,
      <<"A","P","I"," ","K","E","Y"," ","i","n","v","a","l","i","d">>,
      <<"U","n","a","u","t","h","o","r","i","z","e","d">>,
      <<"B","i","l","l","i","n","g"," ","o","f","f">>,
      <<"t","i","m","e","o","u","t">> }

\* what the generation call of one attempt can do: a response whose text is
\* non-empty after strip() or whitespace-only, or a raised exception
Replies ==
    [kind : {"text"}, text : { <<" ","o","k","\n">>, <<" ","\n">> }] \cup
    [kind : {"raise"}, text : UpstreamErrors]

\* what the probe call of test_model can do: a response whose text is
\* non-empty, whitespace-only or empty, or a raised exception
ProbeReplies ==
    [kind : {"text"}, text : { <<"o","k">>, <<" ","\n">>, <<>> }] \cup
    [kind : {"raise"}, text : { <<"t","i","m","e","o","u","t">> }]

\* random.uniform(0.5, 1.5), in tenths of a second
Jitters == {5, 15}

\* every value of random.uniform(0.5, 1.5) on tenths of a second
JitterTenths == 5..15

\* what one generation call of the retry loop can come to: a usable text,
\* an empty text, an error with a fatal keyword, any other error
AttemptOutcomes == {"text", "empty", "fatal", "error"}

(***************************************************************************)
(* Inputs of generate_response                                             *)
(***************************************************************************)
\* a history of n turns; turn i carries the text "t<i>"
History(n) ==
    [i \in 1..n |-> [role |-> IF i % 2 = 1 THEN "user" ELSE "model",
                     parts |-> << <<"t">> \o Str(i) >>]]

\* the lengths of the histories tried: empty, up to the windows of 4 and of 8
\* turns, and beyond them
HistoryLengths == {0, 4, 5, 8, MaxHistory}

UserMessages == { <<"h","i">> }

VARIABLES
    api_key,         \* settings.GEMINI_API_KEY is set
    initialized,     \* self.initialized
    working_model,   \* self.working_model
    pc,              \* where the handler is
    caller,          \* who called initialize: "ctor" or "gen"
    probe_idx,       \* position of initialize's loop in STABLE_MODELS
    messages,        \* argument of generate_response
    user_message,    \* argument of generate_response
    max_attempts,    \* argument of generate_response
    attempt,         \* loop variable of generate_response
    delay,           \* local variable of generate_response, in tenths of a second
    result,          \* how the last generate_response call ended
    log,             \* upstream calls and sleeps of the current call, in order
    now,             \* time.time(), in seconds
    cache,           \* django.core.cache: key -> [value, expires]
    rl_pc,           \* per request thread: where it is in rate_limit_check
    rl_ip,           \* per request thread: request.META['REMOTE_ADDR']
    rl_requests,     \* per request thread: the local variable `requests`
    rl_calls,        \* how many rate_limit_check calls have been made
    admitted,        \* per client: the times of all its admitted requests
    last_check,      \* the last finished rate_limit_check call
    c_pc,            \* per request thread: where it is in generate_response
    c_probe_idx,     \* per request thread: position of initialize's loop
    c_attempt,       \* per request thread: loop variable of generate_response
    c_models,        \* per request thread: the models its generation calls used
    db_sessions,     \* the ChatSession table: a set of rows
    db_messages,     \* the ChatMessage table: a set of rows
    bc,              \* a call of build_conversation_context and what it returned
    si,              \* a call of sanitize_input and what it returned or raised
    bo,              \* the retry loop of one generate_response call and its sleeps
    session_token,   \* per client: request.session['current_chat_session']
    next_uuid,       \* the identifier the next uuid.uuid4() gives
    clock,           \* the last value timezone.now() gave
    chat,            \* the chat_api request that waits for generate_response
    response,        \* the last response sent
    ok_responses,    \* how many chat_api requests were answered 200
    chat_calls       \* how many chat_api and new_chat requests were made

hvars == <<api_key, initialized, working_model, pc, caller, probe_idx,
           messages, user_message, max_attempts, attempt, delay, result, log>>

rlvars == <<now, cache, rl_pc, rl_ip, rl_requests, rl_calls, admitted,
            last_check>>

cvars == <<c_pc, c_probe_idx, c_attempt, c_models>>

\* the variables neither the handler nor the rate limiter owns
dbvars == <<db_sessions, db_messages>>

chatvars == <<session_token, next_uuid, clock, chat, response, ok_responses,
              chat_calls>>

xvars == <<cvars, dbvars, bc, si, bo, chatvars>>

vars == <<hvars, rlvars, xvars>>

NoResult == [kind |-> "none", value |-> <<>>]

\* request.session.get('current_chat_session') when nothing is stored
NoToken == 0

\* no chat_api request waits for generate_response
NoChat ==
    [state |-> "idle", client |-> "", session |-> 0, raw |-> <<>>,
     user_message |-> <<>>, prior_token |-> 0, prior_sessions |-> {}]

\* nothing has been sent yet
NoResponse ==
    [view |-> "none", client |-> "", status |-> 0, error |-> <<>>,
     response |-> <<>>, session_id |-> 0, cause |-> <<>>]

\* no retry loop is being looked at
NoBackoff ==
    [max_attempts |-> 0, attempt |-> 0, pc |-> "none", delay |-> 0,
     sleeps |-> 0, slept |-> 0, last_delay |-> 0]

\* no call of sanitize_input is being looked at
NoSanitizeCall == [message |-> <<>>, state |-> "none", result |-> NoResult]

\* no call of build_conversation_context is being looked at
NoContextCall ==
    [session |-> 0, max_messages |-> 0, state |-> "none", context |-> <<>>]

(***************************************************************************)
(* BulletproofGeminiHandler                                                *)
(***************************************************************************)
\* test_model without the strip(): any text counts as a working model
test_model_NoStrip(reply) ==
    reply.kind = "text" /\ Len(reply.text) > 0

\* line 80: bool(response and response.text and len(response.text.strip()) > 0)
\* lines 82-84: an exception gives False
test_model(reply) ==
    reply.kind = "text" /\ Len(Strip(reply.text)) > 0

\* line 134
ResponseOk(reply) ==
    reply.kind = "text" /\ Len(reply.text) > 0 /\ Len(Strip(reply.text)) > 0

\* line 136 without the strip()
ReturnValue_Raw(text) == text

\* line 136
ReturnValue(text) == Strip(text)

\* line 145 without the lower() of line 141
IsFatal_CaseSensitive(e) ==
    \E keyword \in FATAL_KEYWORDS : Contains(e, keyword)

\* line 145
IsFatal(e) ==
    \E keyword \in FATAL_KEYWORDS : Contains(Lower(e), keyword)

\* line 149
SleepsAfter(a, max) == a < max - 1

\* line 150 without the growth by attempt
Delay_Flat(a, jitter) == 2 * 10 + jitter

\* line 150, in tenths of a second
Delay(a, jitter) == (a + 1) * 2 * 10 + jitter

\* line 96 with one iteration too many
LoopDone_OffByOne(a, max) == a > max

\* line 96: range(max_attempts) is used up
LoopDone(a, max) == a >= max

\* line 92 left out
Unavailable_Never(init) == FALSE

\* line 92
Unavailable(init) == ~init

\* messages[-n:] if len(messages) > n else messages
Recent(msgs, n) ==
    IF Len(msgs) > n THEN SubSeq(msgs, Len(msgs) - n + 1, Len(msgs)) ELSE msgs

UserTurn(text) == [role |-> "user", parts |-> <<text>>]

\* lines 99-115 with the window the comment of line 103 names ("last 4")
Context_Last4(a, msgs, um) ==
    IF a = 0 THEN msgs \o <<UserTurn(um)>>
    ELSE IF a = 1 THEN Recent(msgs, 4) \o <<UserTurn(um)>>
    ELSE IF a = 2 THEN Recent(msgs, 4) \o <<UserTurn(um)>>
    ELSE IF a = 3 THEN
        <<UserTurn(CONTEXT_PREFIX \o Str(Len(msgs) \div 2)
                     \o CONTEXT_MIDDLE \o um)>>
    ELSE <<UserTurn(um)>>

\* lines 99-115 with the windows of attempts 1 and 2 exchanged
Context_Swapped(a, msgs, um) ==
    IF a = 0 THEN msgs \o <<UserTurn(um)>>
    ELSE IF a = 1 THEN Recent(msgs, 4) \o <<UserTurn(um)>>
    ELSE IF a = 2 THEN Recent(msgs, 8) \o <<UserTurn(um)>>
    ELSE IF a = 3 THEN
        <<UserTurn(CONTEXT_PREFIX \o Str(Len(msgs) \div 2)
                     \o CONTEXT_MIDDLE \o um)>>
    ELSE <<UserTurn(um)>>

\* lines 99-115
Context(a, msgs, um) ==
    IF a = 0 THEN msgs \o <<UserTurn(um)>>
    ELSE IF a = 1 THEN Recent(msgs, 8) \o <<UserTurn(um)>>
    ELSE IF a = 2 THEN Recent(msgs, 4) \o <<UserTurn(um)>>
    ELSE IF a = 3 THEN
        <<UserTurn(CONTEXT_PREFIX \o Str(Len(msgs) \div 2)
                     \o CONTEXT_MIDDLE \o um)>>
    ELSE <<UserTurn(um)>>

\* initialize has returned to its caller
Returned(c, init) ==
    IF c = "ctor"
    THEN /\ pc' = "idle"
         /\ UNCHANGED <<attempt, result>>
    ELSE IF Unavailable(init)
    THEN /\ pc' = "done"
         /\ result' = [kind |-> "raise", value |-> MSG_UNAVAILABLE]
         /\ UNCHANGED attempt
    ELSE /\ pc' = "loop"
         /\ attempt' = 0
         /\ UNCHANGED result

\* lines 40-48: entry of initialize, called from c
Initialize(c) ==
    /\ caller' = c
    /\ probe_idx' = 1
    /\ UNCHANGED <<initialized, working_model>>
    /\ IF ~api_key
       THEN Returned(c, initialized)
       ELSE /\ pc' = "probing"
            /\ UNCHANGED <<attempt, result>>

\* lines 35-38
Construct ==
    /\ pc = "ctor"
    /\ Initialize("ctor")
    /\ UNCHANGED <<api_key, messages, user_message, max_attempts, delay, log>>
    /\ UNCHANGED <<rlvars, xvars>>

\* lines 50-58: one iteration of initialize's loop
Probe ==
    /\ pc = "probing"
    /\ \E reply \in ProbeReplies :
        LET model_name == STABLE_MODELS[probe_idx] IN
        /\ log' = Append(log, [type |-> "probe", model |-> model_name,
                               reply |-> reply])
        /\ IF test_model(reply)
           THEN /\ working_model' = model_name
                /\ initialized' = TRUE
                /\ UNCHANGED probe_idx
                /\ Returned(caller, TRUE)
           ELSE /\ UNCHANGED <<working_model, initialized>>
                /\ IF probe_idx < Len(STABLE_MODELS)
                   THEN /\ probe_idx' = probe_idx + 1
                        /\ UNCHANGED <<pc, attempt, result>>
                   ELSE /\ UNCHANGED probe_idx
                        /\ Returned(caller, initialized)
    /\ UNCHANGED <<api_key, caller, messages, user_message, max_attempts, delay>>
    /\ UNCHANGED <<rlvars, xvars>>

\* lines 86-93: generate_response is entered with these arguments
CallGenerateResponse(msgs, um, ma) ==
    /\ messages' = msgs
    /\ user_message' = um
    /\ max_attempts' = ma
    /\ log' = <<>>
    /\ IF ~initialized
       THEN Initialize("gen")
       ELSE /\ pc' = "loop"
            /\ attempt' = 0
            /\ result' = NoResult
            /\ UNCHANGED <<initialized, working_model, caller, probe_idx>>
    /\ UNCHANGED <<api_key, delay>>

\* lines 86-93: a call of generate_response
GenerateResponse ==
    /\ pc = "idle"
    /\ \E n \in HistoryLengths, um \in UserMessages, ma \in 0..MaxAttemptsArg :
        CallGenerateResponse(History(n), um, ma)
    /\ UNCHANGED <<rlvars, xvars>>

\* lines 96-151 and 155: one iteration of the attempt loop up to its sleep,
\* or the end of the loop
Attempt ==
    /\ pc = "loop"
    /\ IF LoopDone(attempt, max_attempts)
       THEN /\ pc' = "done"
            /\ result' = [kind |-> "raise", value |-> MSG_EXHAUSTED]
            /\ UNCHANGED <<attempt, delay, log>>
       ELSE \E reply \in Replies :
            /\ log' = Append(log, [type |-> "gen", attempt |-> attempt,
                                   model |-> working_model,
                                   context |-> Context(attempt, messages, user_message),
                                   reply |-> reply])
            /\ IF reply.kind = "text"
               THEN IF ResponseOk(reply)
                    THEN /\ pc' = "done"
                         /\ result' = [kind |-> "return",
                                       value |-> ReturnValue(reply.text)]
                         /\ UNCHANGED <<attempt, delay>>
                    ELSE /\ attempt' = attempt + 1
                         /\ UNCHANGED <<pc, result, delay>>
               ELSE IF IsFatal(reply.text)
                    THEN /\ pc' = "done"
                         /\ result' = [kind |-> "raise", value |-> reply.text]
                         /\ UNCHANGED <<attempt, delay>>
                    ELSE IF SleepsAfter(attempt, max_attempts)
                    THEN /\ pc' = "sleep"
                         /\ \E jitter \in Jitters :
                                delay' = Delay(attempt, jitter)
                         /\ UNCHANGED <<attempt, result>>
                    ELSE /\ attempt' = attempt + 1
                         /\ UNCHANGED <<pc, result, delay>>
    /\ UNCHANGED <<api_key, initialized, working_model, caller, probe_idx,
                   messages, user_message, max_attempts>>
    /\ UNCHANGED <<rlvars, xvars>>

\* line 152: time.sleep(delay), and on to the next iteration
Sleep ==
    /\ pc = "sleep"
    /\ log' = Append(log, [type |-> "sleep", attempt |-> attempt])
    /\ delay' = 0
    /\ attempt' = attempt + 1
    /\ pc' = "loop"
    /\ UNCHANGED <<api_key, initialized, working_model, caller, probe_idx,
                   messages, user_message, max_attempts, result>>
    /\ UNCHANGED <<rlvars, xvars>>

\* the caller has taken the result of generate_response
Finish ==
    /\ pc = "done"
    /\ pc' = "idle"
    /\ result' = NoResult
    /\ log' = <<>>
    /\ messages' = <<>>
    /\ max_attempts' = 0
    /\ attempt' = 0
    /\ UNCHANGED <<api_key, initialized, working_model, caller, probe_idx,
                   user_message, delay>>
    /\ UNCHANGED <<rlvars, xvars>>

(***************************************************************************)
(* rate_limit_check                                                        *)
(***************************************************************************)
\* the addresses requests come from
Clients == {"10.0.0.1", "10.0.0.2"}

\* the request threads of the concurrent specification
Threads == {"t1", "t2"}

\* by how much the clock advances between two steps
Deltas == {30, 45}

\* line 163
cache_key(user_ip) == <<"chat_rate_limit_", user_ip>>

\* cache.get(key, default): an entry that has expired is not there
CacheGet(key, default) ==
    IF key \in DOMAIN cache /\ now < cache[key].expires
    THEN cache[key].value
    ELSE default

\* cache.set(key, value, timeout)
CacheSet(key, value, timeout) ==
    [k \in DOMAIN cache \cup {key} |->
        IF k = key THEN [value |-> value, expires |-> now + timeout]
        ELSE cache[k]]

\* line 168 with <= for <
StillInWindow_Inclusive(t, req_time, window) == t - req_time <= window

\* line 168
StillInWindow(t, req_time, window) == t - req_time < window

\* line 168
Recent_requests(requests, t, window) ==
    SelectSeq(requests, LAMBDA req_time : StillInWindow(t, req_time, window))

\* line 170
LimitReached(requests, max_requests) == Len(requests) >= max_requests

\* the admitted requests of a client that are less than `window` old
InWindow(user_ip, window) ==
    SelectSeq(admitted[user_ip], LAMBDA req_time : now - req_time < window)

\* lines 166-175, on the list `requests` that line 165 has read
Decide(user_ip, requests, max_requests, window) ==
    LET recent == Recent_requests(requests, now, window) IN
    IF LimitReached(recent, max_requests)
    THEN /\ last_check' = [ip |-> user_ip, at |-> now, allowed |-> FALSE,
                           prior |-> Len(InWindow(user_ip, window))]
         /\ UNCHANGED <<cache, admitted>>
    ELSE /\ cache' = CacheSet(cache_key(user_ip), Append(recent, now), window)
         /\ admitted' = [admitted EXCEPT ![user_ip] = Append(@, now)]
         /\ last_check' = [ip |-> user_ip, at |-> now, allowed |-> TRUE,
                           prior |-> Len(InWindow(user_ip, window))]

\* lines 160-175 and 231: rate_limit_check as chat_api calls it, requests
\* processed one at a time
RateLimitCheck ==
    /\ rl_calls < MaxCalls
    /\ rl_calls' = rl_calls + 1
    /\ \E user_ip \in Clients :
        Decide(user_ip, CacheGet(cache_key(user_ip), <<>>),
               CHAT_MAX_REQUESTS, CHAT_WINDOW)
    /\ UNCHANGED <<now, rl_pc, rl_ip, rl_requests>>
    /\ UNCHANGED <<hvars, xvars>>

\* time passes
Tick ==
    /\ \E d \in Deltas :
        /\ now + d <= MaxTime
        /\ now' = now + d
    /\ UNCHANGED <<cache, rl_pc, rl_ip, rl_requests, rl_calls, admitted,
                   last_check>>
    /\ UNCHANGED <<hvars, xvars>>

\* lines 162-165 in a request thread
RLGet(t) ==
    /\ rl_pc[t] = "idle"
    /\ rl_calls < MaxCalls
    /\ rl_calls' = rl_calls + 1
    /\ \E user_ip \in Clients :
        /\ rl_ip' = [rl_ip EXCEPT ![t] = user_ip]
        /\ rl_requests' = [rl_requests EXCEPT
                             ![t] = CacheGet(cache_key(user_ip), <<>>)]
    /\ rl_pc' = [rl_pc EXCEPT ![t] = "read"]
    /\ UNCHANGED <<now, cache, admitted, last_check>>
    /\ UNCHANGED <<hvars, xvars>>

\* lines 166-175 in a request thread
RLDecide(t) ==
    /\ rl_pc[t] = "read"
    /\ Decide(rl_ip[t], rl_requests[t], CHAT_MAX_REQUESTS, CHAT_WINDOW)
    /\ rl_pc' = [rl_pc EXCEPT ![t] = "idle"]
    /\ rl_requests' = [rl_requests EXCEPT ![t] = <<>>]
    /\ UNCHANGED <<now, rl_ip, rl_calls>>
    /\ UNCHANGED <<hvars, xvars>>

(***************************************************************************)
(* generate_response on the shared handler, called by concurrent threads   *)
(***************************************************************************)
\* lines 86-90: entry of generate_response, and of initialize when the
\* handler is not initialized
CGenerateResponse(t) ==
    /\ c_pc[t] = "idle"
    /\ c_models' = [c_models EXCEPT ![t] = <<>>]
    /\ c_attempt' = [c_attempt EXCEPT ![t] = 0]
    /\ c_probe_idx' = [c_probe_idx EXCEPT ![t] = 1]
    /\ c_pc' = [c_pc EXCEPT ![t] =
                  IF ~initialized /\ api_key THEN "probing" ELSE "check"]
    /\ UNCHANGED <<hvars, rlvars, dbvars, bc, si, bo, chatvars>>

\* lines 50-51 and 57-58: one probe of initialize's loop
CProbe(t) ==
    /\ c_pc[t] = "probing"
    /\ \E reply \in ProbeReplies :
        IF test_model(reply)
        THEN /\ c_pc' = [c_pc EXCEPT ![t] = "set_model"]
             /\ UNCHANGED c_probe_idx
        ELSE IF c_probe_idx[t] < Len(STABLE_MODELS)
        THEN /\ c_probe_idx' = [c_probe_idx EXCEPT ![t] = @ + 1]
             /\ UNCHANGED c_pc
        ELSE /\ c_pc' = [c_pc EXCEPT ![t] = "check"]
             /\ UNCHANGED c_probe_idx
    /\ UNCHANGED <<c_attempt, c_models>>
    /\ UNCHANGED <<hvars, rlvars, dbvars, bc, si, bo, chatvars>>

\* lines 52-53 with the flag set before the model
CSetModel_FlagFirst(t) ==
    /\ c_pc[t] = "set_model"
    /\ initialized' = TRUE
    /\ c_pc' = [c_pc EXCEPT ![t] = "set_initialized"]
    /\ UNCHANGED <<api_key, working_model, pc, caller, probe_idx, messages,
                   user_message, max_attempts, attempt, delay, result, log>>
    /\ UNCHANGED <<c_probe_idx, c_attempt, c_models>>
    /\ UNCHANGED <<rlvars, dbvars, bc, si, bo, chatvars>>

\* line 52
CSetModel(t) ==
    /\ c_pc[t] = "set_model"
    /\ working_model' = STABLE_MODELS[c_probe_idx[t]]
    /\ c_pc' = [c_pc EXCEPT ![t] = "set_initialized"]
    /\ UNCHANGED <<api_key, initialized, pc, caller, probe_idx, messages,
                   user_message, max_attempts, attempt, delay, result, log>>
    /\ UNCHANGED <<c_probe_idx, c_attempt, c_models>>
    /\ UNCHANGED <<rlvars, dbvars, bc, si, bo, chatvars>>

\* lines 53-55
CSetInitialized(t) ==
    /\ c_pc[t] = "set_initialized"
    /\ initialized' = TRUE
    /\ c_pc' = [c_pc EXCEPT ![t] = "check"]
    /\ UNCHANGED <<api_key, working_model, pc, caller, probe_idx, messages,
                   user_message, max_attempts, attempt, delay, result, log>>
    /\ UNCHANGED <<c_probe_idx, c_attempt, c_models>>
    /\ UNCHANGED <<rlvars, dbvars, bc, si, bo, chatvars>>

\* lines 92-93
CCheck(t) ==
    /\ c_pc[t] = "check"
    /\ c_pc' = [c_pc EXCEPT ![t] =
                  IF Unavailable(initialized) THEN "done" ELSE "loop"]
    /\ UNCHANGED <<c_probe_idx, c_attempt, c_models>>
    /\ UNCHANGED <<hvars, rlvars, dbvars, bc, si, bo, chatvars>>

\* lines 96-155: one iteration of the attempt loop, its sleep included, or
\* the end of the loop
CAttempt(t) ==
    /\ c_pc[t] = "loop"
    /\ IF LoopDone(c_attempt[t], DEFAULT_MAX_ATTEMPTS)
       THEN /\ c_pc' = [c_pc EXCEPT ![t] = "done"]
            /\ UNCHANGED <<c_attempt, c_models>>
       ELSE \E reply \in Replies :
            /\ c_models' = [c_models EXCEPT ![t] = Append(@, working_model)]
            /\ IF ResponseOk(reply) \/ (reply.kind = "raise" /\ IsFatal(reply.text))
               THEN /\ c_pc' = [c_pc EXCEPT ![t] = "done"]
                    /\ UNCHANGED c_attempt
               ELSE /\ c_attempt' = [c_attempt EXCEPT ![t] = @ + 1]
                    /\ UNCHANGED c_pc
    /\ UNCHANGED c_probe_idx
    /\ UNCHANGED <<hvars, rlvars, dbvars, bc, si, bo, chatvars>>

\* the caller has taken the result of generate_response
CFinish(t) ==
    /\ c_pc[t] = "done"
    /\ c_pc' = [c_pc EXCEPT ![t] = "idle"]
    /\ c_models' = [c_models EXCEPT ![t] = <<>>]
    /\ c_attempt' = [c_attempt EXCEPT ![t] = 0]
    /\ UNCHANGED c_probe_idx
    /\ UNCHANGED <<hvars, rlvars, dbvars, bc, si, bo, chatvars>>

(***************************************************************************)
(* The conversation store and build_conversation_context                   *)
(***************************************************************************)
\* ChatMessage.user_message / ai_response of the k-th exchange
UserText(k) == <<"u">> \o Str(k)
ReplyText(k) == <<"a">> \o Str(k)

\* a ChatMessage row (models.py lines 37-43)
MessageRow(session_id, user_text, reply_text, timestamp) ==
    [session |-> session_id, user_message |-> user_text,
     ai_response |-> reply_text, timestamp |-> timestamp]

\* a ChatSession row (models.py lines 7-13)
SessionRow(session_id, active, created_at, updated_at) ==
    [session_id |-> session_id, is_active |-> active,
     created_at |-> created_at, updated_at |-> updated_at]

\* ChatMessage.objects.filter(session=session)
FilterBySession(rows, session_id) == {m \in rows : m.session = session_id}

\* .order_by('timestamp'), turned into a list
RECURSIVE OrderByTimestamp(_)
OrderByTimestamp(rows) ==
    IF rows = {} THEN <<>>
    ELSE LET first == CHOOSE m \in rows :
                          \A x \in rows : m.timestamp <= x.timestamp
         IN <<first>> \o OrderByTimestamp(rows \ {first})

\* Python's lst[-k:] for k >= 0: lst[-0:] is lst[0:], the whole list
SliceFromEnd_KeepFirst(lst, k) ==
    IF k >= Len(lst) THEN lst ELSE SubSeq(lst, 1, k)

SliceFromEnd(lst, k) ==
    IF k = 0 \/ k >= Len(lst) THEN lst
    ELSE SubSeq(lst, Len(lst) - k + 1, Len(lst))

\* lines 214-217
RECURSIVE Expand(_)
Expand(msgs) ==
    IF msgs = <<>> THEN <<>>
    ELSE << [role |-> "user", parts |-> <<Head(msgs).user_message>>],
            [role |-> "model", parts |-> <<Head(msgs).ai_response>>] >>
         \o Expand(Tail(msgs))

\* lines 207-219
build_conversation_context(session_id, max_messages) ==
    LET all == OrderByTimestamp(FilterBySession(db_messages, session_id))
        kept == IF Len(all) > max_messages
                THEN SliceFromEnd(all, max_messages)
                ELSE all
    IN Expand(kept)

\* the sessions of the stores build_conversation_context is checked on
SESSION_A == 1
SESSION_B == 2

\* a store with n messages of session A and k of session B, their
\* timestamps interleaved
StoreOf(n, k) ==
    {MessageRow(SESSION_A, UserText(i), ReplyText(i), 2 * i) : i \in 1..n}
    \cup
    {MessageRow(SESSION_B, UserText(50 + i), ReplyText(50 + i), 2 * i + 1) :
        i \in 1..k}

(***************************************************************************)
(* sanitize_input                                                          *)
(***************************************************************************)
\* line 182
MAX_MESSAGE_LENGTH == 1200

\* line 180
ERR_EMPTY_INPUT ==
    <<"P", "l", "e", "a", "s", "e", " ", "e", "n", "t", "e", "r", " ", "a",
      " ", "m", "e", "s", "s", "a", "g", "e">>

\* line 183
ERR_TOO_LONG ==
    <<"M", "e", "s", "s", "a", "g", "e", " ", "t", "o", "o", " ", "l", "o",
      "n", "g", " ", "(", "m", "a", "x", " ", "1", "2", "0", "0", " ", "c",
      "h", "a", "r", "a", "c", "t", "e", "r", "s", ")">>

\* index of the first ">" of s, 0 when there is none
FirstClose(s) ==
    IF \E j \in 1..Len(s) : s[j] = ">"
    THEN CHOOSE j \in 1..Len(s) :
             /\ s[j] = ">"
             /\ \A i \in 1..(j - 1) : s[i] # ">"
    ELSE 0

\* does the pattern <[^>]+> match s at index i: a "<", one or more
\* characters other than ">", and a ">"
TagAt(s, i) ==
    /\ s[i] = "<"
    /\ FirstClose(SubSeq(s, i + 1, Len(s))) >= 2

\* re.sub(r'<[^>]+>', '', s): the leftmost match is removed, the search
\* goes on behind it
RECURSIVE StripTags(_)
StripTags(s) ==
    IF \E i \in 1..Len(s) : TagAt(s, i)
    THEN LET start == CHOOSE i \in 1..Len(s) :
                          /\ TagAt(s, i)
                          /\ \A j \in 1..(i - 1) : ~TagAt(s, j)
             end == start + FirstClose(SubSeq(s, start + 1, Len(s)))
         IN SubSeq(s, 1, start - 1) \o StripTags(SubSeq(s, end + 1, Len(s)))
    ELSE s

\* html.escape of one character
EscapeChar(c) ==
    CASE c = "&" -> <<"&", "a", "m", "p", ";">>
      [] c = "<" -> <<"&", "l", "t", ";">>
      [] c = ">" -> <<"&", "g", "t", ";">>
      [] c = "\"" -> <<"&", "q", "u", "o", "t", ";">>
      [] c = "'" -> <<"&", "#", "x", "2", "7", ";">>
      [] OTHER -> <<c>>

\* django.utils.html.escape
RECURSIVE Escape(_)
Escape(s) ==
    IF s = <<>> THEN <<>>
    ELSE IF Len(s) = 1 THEN EscapeChar(s[1])
    ELSE Escape(SubSeq(s, 1, Len(s) \div 2))
         \o Escape(SubSeq(s, Len(s) \div 2 + 1, Len(s)))

\* line 179: not message or len(message.strip()) == 0
IsBlank(message) == message = <<>> \/ Len(Strip(message)) = 0

\* line 182 with >= for >
TooLong_AtLimit(message) == Len(message) >= MAX_MESSAGE_LENGTH

\* line 182
TooLong(message) == Len(message) > MAX_MESSAGE_LENGTH

\* lines 177-187
sanitize_input(message) ==
    IF IsBlank(message) THEN [kind |-> "error", value |-> ERR_EMPTY_INPUT]
    ELSE IF TooLong(message) THEN [kind |-> "error", value |-> ERR_TOO_LONG]
    ELSE [kind |-> "ok", value |-> Escape(Strip(StripTags(message)))]

\* n copies of the character c
Pad(c, n) == [i \in 1..n |-> c]

\* the characters of the short texts
InputChars == {"a", " ", "<", ">", "&"}

\* texts of up to MaxInputLen characters
ShortInputs == UNION {[1..n -> InputChars] : n \in 0..MaxInputLen}

\* texts at and beyond the length limit
LongInputs ==
    { Pad("a", MAX_MESSAGE_LENGTH), Pad("a", MAX_MESSAGE_LENGTH + 1),
      Pad(" ", MAX_MESSAGE_LENGTH), Pad(" ", MAX_MESSAGE_LENGTH + 1),
      Pad(" ", MAX_MESSAGE_LENGTH) \o <<"a">>,
      <<"a">> \o Pad(" ", MAX_MESSAGE_LENGTH),
      <<"<">> \o Pad("b", MAX_MESSAGE_LENGTH - 2) \o <<">">>,
      <<"<">> \o Pad("b", MAX_MESSAGE_LENGTH - 1) \o <<">">> }

(***************************************************************************)
(* chat_api, get_or_create_session and new_chat                            *)
(***************************************************************************)
\* line 251: max_messages=4
CHAT_MAX_MESSAGES == 4

\* line 233
ERR_RATE_LIMITED ==
    <<"P", "l", "e", "a", "s", "e", " ", "w", "a", "i", "t", " ", "a", " ",
      "m", "o", "m", "e", "n", "t", " ", "b", "e", "f", "o", "r", "e", " ",
      "s", "e", "n", "d", "i", "n", "g", " ", "a", "n", "o", "t", "h", "e",
      "r", " ", "m", "e", "s", "s", "a", "g", "e", " ", "(", "m", "a", "x",
      " ", "6", " ", "p", "e", "r", " ", "m", "i", "n", "u", "t", "e", ")",
      ".">>

\* line 241
ERR_NO_MESSAGE ==
    <<"P", "l", "e", "a", "s", "e", " ", "e", "n", "t", "e", "r", " ", "a",
      " ", "m", "e", "s", "s", "a", "g", "e", ".">>

\* line 298
ERR_INVALID_FORMAT ==
    <<"I", "n", "v", "a", "l", "i", "d", " ", "r", "e", "q", "u", "e", "s",
      "t", " ", "f", "o", "r", "m", "a", "t", ".">>

\* line 301
ERR_UNEXPECTED ==
    <<"S", "o", "m", "e", "t", "h", "i", "n", "g", " ", "w", "e", "n", "t",
      " ", "w", "r", "o", "n", "g", ".", " ", "P", "l", "e", "a", "s", "e",
      " ", "t", "r", "y", " ", "a", "g", "a", "i", "n", ".">>

\* line 286
MSG_QUOTA ==
    <<"A", "P", "I", " ", "q", "u", "o", "t", "a", " ", "r", "e", "a", "c",
      "h", "e", "d", ".", " ", "P", "l", "e", "a", "s", "e", " ", "t", "r",
      "y", " ", "a", "g", "a", "i", "n", " ", "i", "n", " ", "a", " ", "f",
      "e", "w", " ", "m", "i", "n", "u", "t", "e", "s", ".">>

\* line 288
MSG_AUTH ==
    <<"A", "u", "t", "h", "e", "n", "t", "i", "c", "a", "t", "i", "o", "n",
      " ", "i", "s", "s", "u", "e", ".", " ", "P", "l", "e", "a", "s", "e",
      " ", "c", "h", "e", "c", "k", " ", "y", "o", "u", "r", " ", "s", "e",
      "t", "u", "p", ".">>

\* line 290
MSG_HIGH_DEMAND ==
    <<"I", "'", "m", " ", "e", "x", "p", "e", "r", "i", "e", "n", "c", "i",
      "n", "g", " ", "h", "i", "g", "h", " ", "d", "e", "m", "a", "n", "d",
      " ", "r", "i", "g", "h", "t", " ", "n", "o", "w", ".", " ", "P", "l",
      "e", "a", "s", "e", " ", "t", "r", "y", " ", "a", "g", "a", "i", "n",
      " ", "i", "n", " ", "a", " ", "m", "o", "m", "e", "n", "t", ".">>

\* line 292
MSG_TEMPORARY ==
    <<"I", "'", "m", " ", "h", "a", "v", "i", "n", "g", " ", "t", "e", "m",
      "p", "o", "r", "a", "r", "y", " ", "d", "i", "f", "f", "i", "c", "u",
      "l", "t", "i", "e", "s", ".", " ", "P", "l", "e", "a", "s", "e", " ",
      "t", "r", "y", " ", "a", "g", "a", "i", "n", " ", "s", "h", "o", "r",
      "t", "l", "y", ".">>

\* the keywords of lines 285-289
KW_QUOTA == <<"q","u","o","t","a">>
KW_BILLING == <<"b","i","l","l","i","n","g">>
KW_KEY == <<"k","e","y">>
KW_AUTH == <<"a","u","t","h">>
KW_UNAVAILABLE == <<"u","n","a","v","a","i","l","a","b","l","e">>

\* lines 282-292 with the text of the error handed on when no keyword fits
ErrorMessage_Raw(ai_error) ==
    LET error_msg == Lower(ai_error) IN
    IF Contains(error_msg, KW_QUOTA) \/ Contains(error_msg, KW_BILLING)
    THEN MSG_QUOTA
    ELSE IF Contains(error_msg, KW_KEY) \/ Contains(error_msg, KW_AUTH)
    THEN MSG_AUTH
    ELSE IF Contains(error_msg, KW_UNAVAILABLE)
    THEN MSG_HIGH_DEMAND
    ELSE ai_error

\* lines 282-292 without the branch of lines 289-290
ErrorMessage_ThreeWay(ai_error) ==
    LET error_msg == Lower(ai_error) IN
    IF Contains(error_msg, KW_QUOTA) \/ Contains(error_msg, KW_BILLING)
    THEN MSG_QUOTA
    ELSE IF Contains(error_msg, KW_KEY) \/ Contains(error_msg, KW_AUTH)
    THEN MSG_AUTH
    ELSE MSG_TEMPORARY

\* lines 282-292: the user message for an error of generate_response
ErrorMessage(ai_error) ==
    LET error_msg == Lower(ai_error) IN
    IF Contains(error_msg, KW_QUOTA) \/ Contains(error_msg, KW_BILLING)
    THEN MSG_QUOTA
    ELSE IF Contains(error_msg, KW_KEY) \/ Contains(error_msg, KW_AUTH)
    THEN MSG_AUTH
    ELSE IF Contains(error_msg, KW_UNAVAILABLE)
    THEN MSG_HIGH_DEMAND
    ELSE MSG_TEMPORARY

\* the texts a client sends as "message": none, blank, too long, a text
\* with a tag in it, and nothing but a tag
ChatMessages ==
    { <<>>, <<" ">>, Pad("a", MAX_MESSAGE_LENGTH + 1),
      <<"<", "b", ">", "h", "i">>, <<"<", "b", ">">> }

\* request bodies: not JSON, a JSON array, an object without "message", an
\* object with a "message" text
ChatBodies ==
    [kind : {"malformed", "array", "no_message"}, message : {<<>>}] \cup
    [kind : {"message"}, message : ChatMessages]

\* ChatSession.objects.get(session_id=session_id, is_active=True) finds a row
ActiveSession(session_id) ==
    \E s \in db_sessions : s.session_id = session_id /\ s.is_active

\* line 195 with is_active=True left out of the lookup
Reuses_AnySession(token) ==
    token # NoToken /\ \E s \in db_sessions : s.session_id = token

\* lines 193-195: the stored token names an active session
Reuses(token) == token # NoToken /\ ActiveSession(token)

\* the identifiers of the stored sessions
SessionIds == {s.session_id : s \in db_sessions}

\* ChatSession.objects.create(session_id=str(uuid.uuid4()))
CreateSession ==
    db_sessions \cup {SessionRow(next_uuid, TRUE, clock + 1, clock + 2)}

\* lines 270-271 left out
TouchSession_Skip(session_id, at) == db_sessions

\* lines 270-271: session.updated_at = timezone.now(); session.save()
TouchSession(session_id, at) ==
    {IF s.session_id = session_id THEN [s EXCEPT !.updated_at = at] ELSE s :
        s \in db_sessions}

\* a response that carries an error
ErrorResponse(view, client, status, error, cause) ==
    [view |-> view, client |-> client, status |-> status, error |-> error,
     response |-> <<>>, session_id |-> 0, cause |-> cause]

\* chat_api with get_or_create_session called before the body is looked at
EarlyReturn_AfterSession(client, status, error) ==
    /\ response' = ErrorResponse("chat_api", client, status, error, <<>>)
    /\ db_sessions' = CreateSession
    /\ session_token' = [session_token EXCEPT ![client] = next_uuid]
    /\ next_uuid' = next_uuid + 1
    /\ clock' = clock + 2
    /\ UNCHANGED <<hvars, db_messages, chat, ok_responses>>

\* chat_api returns before it reaches get_or_create_session
EarlyReturn(client, status, error) ==
    /\ response' = ErrorResponse("chat_api", client, status, error, <<>>)
    /\ UNCHANGED <<hvars, dbvars, session_token, next_uuid, clock, chat,
                   ok_responses>>

\* lines 189-205 and 250-257: the session is resolved, the context built
\* and generate_response called
ResolveAndGenerate(client, raw, cleaned) ==
    LET token == session_token[client]
        session_id == IF Reuses(token) THEN token ELSE next_uuid
    IN
    /\ IF Reuses(token)
       THEN UNCHANGED <<db_sessions, session_token, next_uuid, clock>>
       ELSE /\ db_sessions' = CreateSession
            /\ session_token' = [session_token EXCEPT ![client] = next_uuid]
            /\ next_uuid' = next_uuid + 1
            /\ clock' = clock + 2
    /\ chat' = [state |-> "generating", client |-> client,
                session |-> session_id, raw |-> raw, user_message |-> cleaned,
                prior_token |-> token, prior_sessions |-> SessionIds]
    /\ CallGenerateResponse(
           build_conversation_context(session_id, CHAT_MAX_MESSAGES),
           cleaned, DEFAULT_MAX_ATTEMPTS)
    /\ response' = NoResponse
    /\ UNCHANGED <<db_messages, ok_responses>>

\* lines 227-257 with the body looked at before rate_limit_check is called
ChatBegin_ValidateFirst ==
    /\ pc = "idle"
    /\ chat.state = "idle"
    /\ chat_calls < MaxChatCalls
    /\ chat_calls' = chat_calls + 1
    /\ \E client \in Clients, body \in ChatBodies :
        LET cleaned == sanitize_input(body.message)
            requests == CacheGet(cache_key(client), <<>>)
        IN
        IF body.kind = "malformed"
        THEN /\ EarlyReturn(client, 400, ERR_INVALID_FORMAT)
             /\ UNCHANGED <<cache, admitted, last_check>>
        ELSE IF body.kind = "array"
        THEN /\ EarlyReturn(client, 500, ERR_UNEXPECTED)
             /\ UNCHANGED <<cache, admitted, last_check>>
        ELSE IF body.kind = "no_message" \/ body.message = <<>>
        THEN /\ EarlyReturn(client, 400, ERR_NO_MESSAGE)
             /\ UNCHANGED <<cache, admitted, last_check>>
        ELSE IF cleaned.kind = "error"
        THEN /\ EarlyReturn(client, 400, cleaned.value)
             /\ UNCHANGED <<cache, admitted, last_check>>
        ELSE /\ Decide(client, requests, CHAT_MAX_REQUESTS, CHAT_WINDOW)
             /\ IF ~last_check'.allowed
                THEN EarlyReturn(client, 429, ERR_RATE_LIMITED)
                ELSE ResolveAndGenerate(client, body.message, cleaned.value)
    /\ UNCHANGED <<now, rl_pc, rl_ip, rl_requests, rl_calls>>
    /\ UNCHANGED <<cvars, bc, si, bo>>

\* lines 227-257: a chat_api request up to its call of generate_response,
\* or up to its response when it does not get that far
ChatBegin ==
    /\ pc = "idle"
    /\ chat.state = "idle"
    /\ chat_calls < MaxChatCalls
    /\ chat_calls' = chat_calls + 1
    /\ \E client \in Clients, body \in ChatBodies :
        /\ Decide(client, CacheGet(cache_key(client), <<>>),
                  CHAT_MAX_REQUESTS, CHAT_WINDOW)
        /\ IF ~last_check'.allowed
           THEN EarlyReturn(client, 429, ERR_RATE_LIMITED)
           ELSE IF body.kind = "malformed"
           THEN EarlyReturn(client, 400, ERR_INVALID_FORMAT)
           ELSE IF body.kind = "array"
           THEN EarlyReturn(client, 500, ERR_UNEXPECTED)
           ELSE IF body.kind = "no_message" \/ body.message = <<>>
           THEN EarlyReturn(client, 400, ERR_NO_MESSAGE)
           ELSE LET cleaned == sanitize_input(body.message) IN
                IF cleaned.kind = "error"
                THEN EarlyReturn(client, 400, cleaned.value)
                ELSE ResolveAndGenerate(client, body.message, cleaned.value)
    /\ UNCHANGED <<now, rl_pc, rl_ip, rl_requests, rl_calls>>
    /\ UNCHANGED <<cvars, bc, si, bo>>

\* lines 257-295: generate_response has returned or raised
ChatEnd ==
    /\ pc = "done"
    /\ chat.state = "generating"
    /\ IF result.kind = "return"
       THEN /\ db_messages' = db_messages \cup
                   {MessageRow(chat.session, chat.user_message, result.value,
                               clock + 1)}
            /\ db_sessions' = TouchSession(chat.session, clock + 2)
            /\ clock' = clock + 2
            /\ response' = [view |-> "chat_api", client |-> chat.client,
                            status |-> 200, error |-> <<>>,
                            response |-> result.value,
                            session_id |-> chat.session, cause |-> <<>>]
            /\ ok_responses' = ok_responses + 1
       ELSE /\ response' = ErrorResponse("chat_api", chat.client, 503,
                                         ErrorMessage(result.value),
                                         result.value)
            /\ UNCHANGED <<dbvars, clock, ok_responses>>
    /\ chat' = NoChat
    /\ pc' = "idle"
    /\ result' = NoResult
    /\ log' = <<>>
    /\ messages' = <<>>
    /\ max_attempts' = 0
    /\ attempt' = 0
    /\ UNCHANGED <<api_key, initialized, working_model, caller, probe_idx,
                   user_message, delay>>
    /\ UNCHANGED <<session_token, next_uuid, chat_calls>>
    /\ UNCHANGED <<rlvars, cvars, bc, si, bo>>

\* lines 327-342
NewChat ==
    /\ pc = "idle"
    /\ chat.state = "idle"
    /\ chat_calls < MaxChatCalls
    /\ chat_calls' = chat_calls + 1
    /\ \E client \in Clients :
        /\ db_sessions' = CreateSession
        /\ session_token' = [session_token EXCEPT ![client] = next_uuid]
        /\ response' = [view |-> "new_chat", client |-> client,
                        status |-> 200, error |-> <<>>, response |-> <<>>,
                        session_id |-> next_uuid, cause |-> <<>>]
    /\ next_uuid' = next_uuid + 1
    /\ clock' = clock + 2
    /\ UNCHANGED <<db_messages, chat, ok_responses>>
    /\ UNCHANGED <<hvars, rlvars, cvars, bc, si, bo>>

(***************************************************************************)
(* Specifications                                                          *)
(***************************************************************************)
\* the rate limiter before any request
RLInit ==
    /\ now = 0
    /\ cache = <<>>
    /\ rl_pc = [t \in Threads |-> "idle"]
    /\ rl_ip = [t \in Threads |-> "10.0.0.1"]
    /\ rl_requests = [t \in Threads |-> <<>>]
    /\ rl_calls = 0
    /\ admitted = [c \in Clients |-> <<>>]
    /\ last_check = [ip |-> "10.0.0.1", at |-> 0, allowed |-> TRUE, prior |-> 0]

\* no generate_response call is in progress
HNoCall ==
    /\ caller = "ctor"
    /\ probe_idx = 1
    /\ messages = <<>>
    /\ user_message \in UserMessages
    /\ max_attempts = 0
    /\ attempt = 0
    /\ delay = 0
    /\ result = NoResult
    /\ log = <<>>

\* lines 35-37, before __init__ calls initialize
HInit ==
    /\ initialized = FALSE
    /\ working_model = NoModel
    /\ pc = "ctor"
    /\ HNoCall

\* the request threads of the concurrent handler, before any request
CInit ==
    /\ c_pc = [t \in Threads |-> "idle"]
    /\ c_probe_idx = [t \in Threads |-> 1]
    /\ c_attempt = [t \in Threads |-> 0]
    /\ c_models = [t \in Threads |-> <<>>]

\* no request has been made
WebInit ==
    /\ session_token = [c \in Clients |-> NoToken]
    /\ next_uuid = 1
    /\ clock = 0
    /\ chat = NoChat
    /\ response = NoResponse
    /\ ok_responses = 0
    /\ chat_calls = 0

\* the parts a specification leaves alone
XInit ==
    /\ CInit
    /\ db_sessions = {}
    /\ db_messages = {}
    /\ bc = NoContextCall
    /\ si = NoSanitizeCall
    /\ bo = NoBackoff
    /\ WebInit

\* the completion client on its own
Init ==
    /\ api_key \in BOOLEAN
    /\ HInit
    /\ RLInit
    /\ XInit

Next ==
    \/ Construct
    \/ Probe
    \/ GenerateResponse
    \/ Attempt
    \/ Sleep
    \/ Finish

Spec == Init /\ [][Next]_vars

\* the rate limiter on its own, requests processed one at a time
InitRL ==
    /\ api_key = FALSE
    /\ HInit
    /\ RLInit
    /\ XInit

NextRL ==
    \/ RateLimitCheck
    \/ Tick

SpecRL == InitRL /\ [][NextRL]_vars

\* the rate limiter on its own, requests processed by concurrent threads
NextRLC ==
    \/ \E t \in Threads : RLGet(t)
    \/ \E t \in Threads : RLDecide(t)
    \/ Tick

SpecRLC == InitRL /\ [][NextRLC]_vars

\* the handler once constructed (lines 35-38 and 158): initialize has selected
\* a model, or has selected none
InitHC ==
    /\ api_key \in BOOLEAN
    /\ HNoCall
    /\ pc = "idle"
    /\ \/ initialized = FALSE /\ working_model = NoModel
       \/ /\ api_key
          /\ initialized = TRUE
          /\ working_model \in {STABLE_MODELS[i] : i \in 1..Len(STABLE_MODELS)}
    /\ RLInit
    /\ XInit

\* the completion client, called by concurrent request threads
NextHC ==
    \/ \E t \in Threads : CGenerateResponse(t)
    \/ \E t \in Threads : CProbe(t)
    \/ \E t \in Threads : CSetModel(t)
    \/ \E t \in Threads : CSetInitialized(t)
    \/ \E t \in Threads : CCheck(t)
    \/ \E t \in Threads : CAttempt(t)
    \/ \E t \in Threads : CFinish(t)

SpecHC == InitHC /\ [][NextHC]_vars

\* build_conversation_context is called
InitCtx ==
    /\ api_key = FALSE
    /\ HInit
    /\ RLInit
    /\ CInit
    /\ WebInit
    /\ si = NoSanitizeCall
    /\ bo = NoBackoff
    /\ db_sessions = {SessionRow(SESSION_A, TRUE, 0, 0),
                      SessionRow(SESSION_B, TRUE, 0, 0)}
    /\ \E n \in 0..MaxMessages, k \in 0..2 : db_messages = StoreOf(n, k)
    /\ \E sid \in {SESSION_A, SESSION_B}, mm \in 0..MaxTurnsArg :
        bc = [session |-> sid, max_messages |-> mm, state |-> "called",
              context |-> <<>>]

\* lines 207-219
BuildContext ==
    /\ bc.state = "called"
    /\ bc' = [bc EXCEPT !.state = "returned",
                        !.context = build_conversation_context(bc.session,
                                                               bc.max_messages)]
    /\ UNCHANGED <<hvars, rlvars, cvars, dbvars, si, bo, chatvars>>

NextCtx == BuildContext

SpecCtx == InitCtx /\ [][NextCtx]_vars

\* sanitize_input is called
InitSan ==
    /\ api_key = FALSE
    /\ HInit
    /\ RLInit
    /\ CInit
    /\ WebInit
    /\ db_sessions = {}
    /\ db_messages = {}
    /\ bc = NoContextCall
    /\ bo = NoBackoff
    /\ \E message \in ShortInputs \cup LongInputs :
        si = [message |-> message, state |-> "called", result |-> NoResult]

\* lines 177-187
SanitizeInput ==
    /\ si.state = "called"
    /\ si' = [si EXCEPT !.state = "returned",
                        !.result = sanitize_input(si.message)]
    /\ UNCHANGED <<hvars, rlvars, cvars, dbvars, bc, bo, chatvars>>

NextSan == SanitizeInput

SpecSan == InitSan /\ [][NextSan]_vars

\* the retry loop of generate_response is entered
InitBo ==
    /\ api_key = TRUE
    /\ HInit
    /\ RLInit
    /\ CInit
    /\ WebInit
    /\ db_sessions = {}
    /\ db_messages = {}
    /\ bc = NoContextCall
    /\ si = NoSanitizeCall
    /\ \E max \in 0..MaxAttemptsArg :
        bo = [NoBackoff EXCEPT !.max_attempts = max, !.pc = "loop"]

\* lines 96-152: one iteration of the loop up to its sleep
BoAttempt ==
    /\ bo.pc = "loop"
    /\ IF LoopDone(bo.attempt, bo.max_attempts)
       THEN bo' = [bo EXCEPT !.pc = "done"]
       ELSE \E outcome \in AttemptOutcomes :
            CASE outcome \in {"text", "fatal"} ->
                     bo' = [bo EXCEPT !.pc = "done"]
              [] outcome = "empty" ->
                     bo' = [bo EXCEPT !.attempt = @ + 1]
              [] outcome = "error" ->
                     IF SleepsAfter(bo.attempt, bo.max_attempts)
                     THEN \E jitter \in JitterTenths :
                          bo' = [bo EXCEPT !.pc = "sleep",
                                           !.delay = Delay(bo.attempt, jitter)]
                     ELSE bo' = [bo EXCEPT !.attempt = @ + 1]
    /\ UNCHANGED <<hvars, rlvars, cvars, dbvars, bc, si, chatvars>>

\* line 152: time.sleep(delay)
BoSleep ==
    /\ bo.pc = "sleep"
    /\ bo' = [bo EXCEPT !.pc = "loop", !.attempt = @ + 1, !.delay = 0,
                        !.sleeps = @ + 1, !.slept = @ + bo.delay,
                        !.last_delay = bo.delay]
    /\ UNCHANGED <<hvars, rlvars, cvars, dbvars, bc, si, chatvars>>

NextBo == BoAttempt \/ BoSleep

SpecBo == InitBo /\ [][NextBo]_vars

\* the identifier of a session that was stored before
OLD_SESSION == 1

\* the exchanges stored for that session, the k-th at time 2k
StoredExchanges ==
    {MessageRow(OLD_SESSION, UserText(i), ReplyText(i), 2 * i) :
        i \in 1..MaxStored}

\* the web application at some moment between two requests: the handler has
\* been constructed; the client 10.0.0.1 may hold the token of a session,
\* which is active and has exchanges stored, or has been deactivated or
\* deleted since; or it has sent five requests just now, all refused as
\* invalid; or nothing is stored yet and the handler has found no model
InitChat ==
    /\ api_key \in BOOLEAN
    /\ HNoCall
    /\ pc = "idle"
    /\ \/ initialized = FALSE /\ working_model = NoModel
       \/ /\ api_key
          /\ initialized = TRUE
          /\ working_model = STABLE_MODELS[1]
    /\ CInit
    /\ bc = NoContextCall
    /\ si = NoSanitizeCall
    /\ bo = NoBackoff
    /\ chat = NoChat
    /\ response = NoResponse
    /\ chat_calls = 0
    /\ next_uuid = OLD_SESSION + 1
    /\ clock = 2 * MaxStored
    /\ \E sent \in {0, CHAT_MAX_REQUESTS - 1} :
        /\ admitted = [c \in Clients |->
                          IF c = "10.0.0.1" THEN Pad(0, sent) ELSE <<>>]
        /\ cache = IF sent = 0 THEN <<>>
                   ELSE [k \in {cache_key("10.0.0.1")} |->
                            [value |-> Pad(0, sent), expires |-> CHAT_WINDOW]]
        /\ \/ /\ db_sessions = {}
              /\ db_messages = {}
              /\ session_token = [c \in Clients |-> NoToken]
           \/ /\ sent = 0
              /\ db_sessions = {}
              /\ db_messages = {}
              /\ session_token = [c \in Clients |-> IF c = "10.0.0.1"
                                                    THEN OLD_SESSION
                                                    ELSE NoToken]
           \/ /\ sent = 0
              /\ \E active \in BOOLEAN :
                    db_sessions =
                        {SessionRow(OLD_SESSION, active, 0, 2 * MaxStored)}
              /\ db_messages = StoredExchanges
              /\ session_token = [c \in Clients |-> IF c = "10.0.0.1"
                                                    THEN OLD_SESSION
                                                    ELSE NoToken]
    /\ \/ initialized
       \/ /\ db_sessions = {}
          /\ cache = <<>>
          /\ session_token = [c \in Clients |-> NoToken]
    /\ ok_responses = Cardinality(db_messages)
    /\ now = 0
    /\ rl_pc = [t \in Threads |-> "idle"]
    /\ rl_ip = [t \in Threads |-> "10.0.0.1"]
    /\ rl_requests = [t \in Threads |-> <<>>]
    /\ rl_calls = 0
    /\ last_check = [ip |-> "10.0.0.1", at |-> 0, allowed |-> TRUE, prior |-> 0]

\* the web application, one request at a time
NextChat ==
    \/ Probe
    \/ ChatBegin
    \/ Attempt
    \/ Sleep
    \/ ChatEnd
    \/ NewChat

SpecChat == InitChat /\ [][NextChat]_vars

(***************************************************************************)
(* Properties of generate_response and initialize, checked under Spec      *)
(***************************************************************************)
\* the generation calls of the current generate_response call, in order
Gens == SelectSeq(log, LAMBDA e : e.type = "gen")

\* the probe calls of the current run of initialize, in order
Probes == SelectSeq(log, LAMBDA e : e.type = "probe")

\* the sleeps of the current generate_response call, in order
Sleeps == SelectSeq(log, LAMBDA e : e.type = "sleep")

\* the upstream call returned text that is non-empty once trimmed
Succeeded(reply) == reply.kind = "text" /\ Strip(reply.text) # <<>>

\* the upstream call raised an error whose lower-cased message holds one of
\* 'quota', 'billing', 'key', 'auth'
FatalError(reply) ==
    /\ reply.kind = "raise"
    /\ \E kw \in { <<"q","u","o","t","a">>, <<"b","i","l","l","i","n","g">>,
                   <<"k","e","y">>, <<"a","u","t","h">> } :
           Contains(Lower(reply.text), kw)

\* the upstream call failed in a way that is retried
RetryableFailure(reply) == ~Succeeded(reply) /\ ~FatalError(reply)

\* C1: the first generation call that returns non-empty trimmed text ends
\* generate_response: it is call number attempt+1, no generation call follows
\* it, and the call returns exactly the trimmed text.
C1_FirstSuccessReturns ==
    \A k \in 1..Len(Gens) :
        (Succeeded(Gens[k].reply) /\ \A j \in 1..(k - 1) : ~Succeeded(Gens[j].reply))
        => /\ k = Len(Gens)
           /\ Gens[k].attempt = k - 1
           /\ log[Len(log)] = Gens[k]
           /\ pc = "done"
           /\ result = [kind |-> "return", value |-> Strip(Gens[k].reply.text)]

\* empty text on attempts 0 and 1, valid text on attempt 2, of 5 attempts
C1_Witness ==
    /\ pc = "done"
    /\ max_attempts = 5
    /\ Len(Gens) = 3
    /\ Gens[1].reply.kind = "text" /\ ~Succeeded(Gens[1].reply)
    /\ Gens[2].reply.kind = "text" /\ ~Succeeded(Gens[2].reply)
    /\ Succeeded(Gens[3].reply)
    /\ result.kind = "return"

\* C2: a generation call that raises an error with a non-retryable keyword
\* ends generate_response at once: the error propagates, it is call number
\* attempt+1, and neither a sleep nor another attempt follows it.
C2_FatalPropagates ==
    \A k \in 1..Len(Gens) :
        FatalError(Gens[k].reply)
        => /\ k = Len(Gens)
           /\ Gens[k].attempt = k - 1
           /\ log[Len(log)] = Gens[k]
           /\ pc = "done"
           /\ result = [kind |-> "raise", value |-> Gens[k].reply.text]

\* a retryable error on attempt 0, then "Quota exceeded" on attempt 1 of 5
C2_Witness ==
    /\ pc = "done"
    /\ max_attempts = 5
    /\ Len(Gens) = 2
    /\ Gens[1].reply.kind = "raise"
    /\ Gens[2].reply.text = <<"Q","u","o","t","a"," ","e","x","c","e","e","d","e","d">>
    /\ result.kind = "raise"

\* C3: after every retryable failure (a non-fatal error or an empty or
\* whitespace-only response) of an attempt that is not the final one, a
\* sleep comes before the next attempt; after the final attempt there is no
\* sleep.
C3_SleepAfterEveryRetryableFailure ==
    \A p \in 1..Len(log) :
        (log[p].type = "gen" /\ RetryableFailure(log[p].reply))
        => IF log[p].attempt < max_attempts - 1
           THEN p < Len(log) => log[p + 1].type = "sleep"
           ELSE p = Len(log) /\ pc # "sleep"

\* C4: generate_response never makes more than max_attempts generation
\* calls, each loop iteration uses up one attempt, and when every attempt
\* failed retryably it has made exactly max_attempts calls and fails with
\* the exhausted-retries error.
C4_AtMostMaxAttempts ==
    /\ Len(Gens) <= max_attempts
    /\ pc = "loop" => attempt = Len(Gens) /\ attempt <= max_attempts
    /\ pc = "sleep" => attempt + 1 = Len(Gens) /\ attempt < max_attempts
    /\ (pc = "done" /\ initialized
          /\ \A k \in 1..Len(Gens) : RetryableFailure(Gens[k].reply))
       => /\ Len(Gens) = max_attempts
          /\ result = [kind |-> "raise", value |-> MSG_EXHAUSTED]

\* five attempts, all failed retryably, errors and empty responses among them
C4_Witness ==
    /\ pc = "done"
    /\ max_attempts = 5
    /\ Len(Gens) = 5
    /\ \E k \in 1..5 : Gens[k].reply.kind = "raise"
    /\ \E k \in 1..5 : Gens[k].reply.kind = "text"
    /\ result = [kind |-> "raise", value |-> MSG_EXHAUSTED]

\* the last n elements of s, all of s when it has n or fewer
LastN(s, n) ==
    LET m == IF Len(s) < n THEN Len(s) ELSE n IN
    [i \in 1..m |-> s[Len(s) - m + i]]

\* " messages exchanged"
MessagesExchanged ==
    <<" ","m","e","s","s","a","g","e","s"," ","e","x","c","h","a","n","g","e","d">>

\* s ends with suffix
EndsWith(s, suffix) ==
    /\ Len(suffix) <= Len(s)
    /\ SubSeq(s, Len(s) - Len(suffix) + 1, Len(s)) = suffix

\* the new user turn
NewTurn == [role |-> "user", parts |-> <<user_message>>]

\* C5: the context of attempt 0 is the history and the new user turn, of
\* attempt 1 the last 8 turns and the new user turn, of attempt 2 the last 4
\* turns and the new user turn, of attempt 3 one user turn made of the
\* history size and the user message, of attempt 4 and later the user turn
\* alone.
C5_ContextOfAttempt ==
    \A k \in 1..Len(Gens) :
        LET a == Gens[k].attempt
            ctx == Gens[k].context
        IN  /\ a = 0 => ctx = messages \o <<NewTurn>>
            /\ a = 1 => ctx = LastN(messages, 8) \o <<NewTurn>>
            /\ a = 2 => ctx = LastN(messages, 4) \o <<NewTurn>>
            /\ a = 3 => /\ Len(ctx) = 1
                        /\ ctx[1].role = "user"
                        /\ Len(ctx[1].parts) = 1
                        /\ Contains(ctx[1].parts[1],
                                    Str(Len(messages) \div 2) \o MessagesExchanged)
                        /\ EndsWith(ctx[1].parts[1], user_message)
                        /\ \A i \in 1..Len(messages) : ctx[1] # messages[i]
            /\ a >= 4 => ctx = <<NewTurn>>
            /\ a \in {0, 1, 2} => ctx[Len(ctx)] = NewTurn

\* a history longer than 8 turns, and attempts 0 to 4 all made
C5_Witness ==
    /\ Len(messages) > 8
    /\ Len(Gens) = 5
    /\ Gens[5].attempt = 4

\* C6 as claimed: the context of every attempt after the first has fewer
\* turns than the context of the attempt before it.
C6_EachContextSmaller ==
    \A k \in 2..Len(Gens) :
        Len(Gens[k].context) < Len(Gens[k - 1].context)

\* C6 as amended: the context of an attempt never has more turns than the
\* context of the attempt before it; it has fewer on attempt 1 when the
\* history has more than 8 turns, on attempt 2 when it has more than 4, and
\* on attempt 3 when it is not empty, and as many in every other case.
C6_ContextNeverGrows ==
    \A k \in 2..Len(Gens) :
        LET a == Gens[k].attempt
            shrinks == \/ a = 1 /\ Len(messages) > 8
                       \/ a = 2 /\ Len(messages) > 4
                       \/ a = 3 /\ Len(messages) > 0
        IN  /\ Gens[k - 1].attempt = a - 1
            /\ Len(Gens[k].context) <= Len(Gens[k - 1].context)
            /\ shrinks <=> Len(Gens[k].context) < Len(Gens[k - 1].context)

\* a history of more than 8 turns: the context shrinks three times, then
\* stays at one turn
C6_Witness ==
    /\ Len(messages) > 8
    /\ Len(Gens) >= 5
    /\ Len(Gens[2].context) < Len(Gens[1].context)
    /\ Len(Gens[3].context) < Len(Gens[2].context)
    /\ Len(Gens[4].context) < Len(Gens[3].context)
    /\ Len(Gens[5].context) = Len(Gens[4].context)

\* the probe returned text that is non-empty once trimmed
ProbeSucceeded(reply) == reply.kind = "text" /\ Strip(reply.text) # <<>>

\* C7: one run of initialize probes the candidates in the order of
\* STABLE_MODELS, each at most once; a probe that succeeds is the last one of
\* the run and its model is selected; a run that ends with initialized = TRUE
\* has selected the model of its last probe, so every candidate ahead of it
\* was probed and failed and none after it was probed.
C7_FirstWorkingModelSelected ==
    /\ Len(Probes) <= Len(STABLE_MODELS)
    /\ \A i \in 1..Len(Probes) :
        /\ Probes[i].model = STABLE_MODELS[i]
        /\ i < Len(Probes) => ~ProbeSucceeded(Probes[i].reply)
        /\ ProbeSucceeded(Probes[i].reply)
           => /\ i = Len(Probes)
              /\ pc # "probing"
              /\ initialized
              /\ working_model = STABLE_MODELS[i]
    /\ (pc # "probing" /\ Len(Probes) > 0 /\ initialized)
       => /\ ProbeSucceeded(Probes[Len(Probes)].reply)
          /\ working_model = STABLE_MODELS[Len(Probes)]
    /\ (pc # "probing" /\ Len(Probes) > 0 /\ ~initialized)
       => /\ Len(Probes) = Len(STABLE_MODELS)
          /\ working_model = NoModel
    /\ pc = "probing" => Len(Probes) = probe_idx - 1

\* the first two candidates were probed and failed, the third is selected
C7_Witness ==
    /\ pc # "probing"
    /\ initialized
    /\ Len(Probes) = 3
    /\ working_model = STABLE_MODELS[3]

\* C8: a generate_response call on a client that is not initialized runs
\* initialize first. When no probe succeeds it fails with the
\* service-unavailable error, initialized still FALSE, with no generation
\* call and no sleep. When a probe succeeds the call goes on to the attempt
\* loop at attempt 0 (which makes a call unless max_attempts is 0), and its
\* generation calls use the model that probe selected.
C8_ReinitializeOrUnavailable ==
    /\ (pc \in {"loop", "sleep", "done"} /\ ~initialized)
       => /\ pc = "done"
          /\ result = [kind |-> "raise", value |-> MSG_UNAVAILABLE]
    /\ (pc = "done" /\ result = [kind |-> "raise", value |-> MSG_UNAVAILABLE])
       => /\ ~initialized
          /\ Gens = <<>>
          /\ Sleeps = <<>>
          /\ \A i \in 1..Len(Probes) : ~ProbeSucceeded(Probes[i].reply)
          /\ api_key => Len(Probes) = Len(STABLE_MODELS)
    /\ (pc \in {"loop", "sleep", "done"} /\ Len(Probes) > 0 /\ initialized)
       => /\ ProbeSucceeded(Probes[Len(Probes)].reply)
          /\ \A i \in 1..Len(Probes) : log[i] = Probes[i]
          /\ Len(log) = Len(Probes)
             => /\ attempt = 0
                /\ pc = "loop" \/ (pc = "done" /\ max_attempts = 0)
          /\ Len(log) > Len(Probes)
             => /\ log[Len(Probes) + 1].type = "gen"
                /\ log[Len(Probes) + 1].attempt = 0
          /\ \A k \in 1..Len(Gens) :
                Gens[k].model = Probes[Len(Probes)].model
    /\ \A k \in 1..Len(Gens) :
        Gens[k].model \in {STABLE_MODELS[i] : i \in 1..Len(STABLE_MODELS)}

\* every probe of the re-run failed: service unavailable
C8_Witness ==
    /\ pc = "done"
    /\ api_key
    /\ Len(Probes) = 3
    /\ result = [kind |-> "raise", value |-> MSG_UNAVAILABLE]

\* the re-run selected the second candidate and attempt 0 was made with it
C8_WitnessReinitialized ==
    /\ Len(Probes) = 2
    /\ Len(Gens) >= 1
    /\ Gens[1].attempt = 0
    /\ Gens[1].model = STABLE_MODELS[2]

(***************************************************************************)
(* Properties of rate_limit_check, checked under SpecRL and SpecRLC        *)
(***************************************************************************)
\* the timestamps stored for a client that a check made now would count
StoredInWindow(user_ip) ==
    SelectSeq(CacheGet(cache_key(user_ip), <<>>),
              LAMBDA req_time : now - req_time < CHAT_WINDOW)

\* C9: with requests processed one at a time, a request is admitted exactly
\* when fewer than 6 admitted requests of its client are less than 60
\* seconds old; the stored timestamps that count are exactly those admitted
\* requests (a rejected request is not among them), so no client has more
\* than 6 admitted requests inside 60 seconds, and a request is admitted
\* again as soon as the oldest of 6 is 60 seconds old.
C9_AdmitsBelowLimit ==
    /\ last_check.allowed <=> last_check.prior < CHAT_MAX_REQUESTS
    /\ \A c \in Clients :
        /\ StoredInWindow(c) = InWindow(c, CHAT_WINDOW)
        /\ Len(InWindow(c, CHAT_WINDOW)) <= CHAT_MAX_REQUESTS

\* six requests of one client admitted at time 0, a later one rejected, and
\* one admitted when those six are exactly 60 seconds old
C9_Witness ==
    \E c \in Clients :
        /\ Len(admitted[c]) = 7
        /\ \A i \in 1..6 : admitted[c][i] = 0
        /\ admitted[c][7] = 60
        /\ rl_calls = 8
        /\ last_check = [ip |-> c, at |-> 60, allowed |-> TRUE, prior |-> 0]

\* C10: under any interleaving of concurrent rate_limit_check calls no
\* admitted request is lost from the stored list, so no client has more than
\* 6 admitted requests inside 60 seconds.
C10_NoAdmittedRequestLost ==
    \A c \in Clients :
        /\ StoredInWindow(c) = InWindow(c, CHAT_WINDOW)
        /\ Len(InWindow(c, CHAT_WINDOW)) <= CHAT_MAX_REQUESTS

\* the consequence C10 names, alone: at most 6 admitted inside 60 seconds
C10_AtMostLimitAdmitted ==
    \A c \in Clients : Len(InWindow(c, CHAT_WINDOW)) <= CHAT_MAX_REQUESTS

(***************************************************************************)
(* Properties of the handler under concurrent calls, checked under SpecHC  *)
(***************************************************************************)
\* C11: once working_model has been set it never changes to a different
\* model, and all generation calls of one generate_response call use the same
\* model.
C11_SingleSelectedModel ==
    /\ [][working_model # NoModel => working_model' = working_model]_vars
    /\ [](\A t \in Threads : \A i, j \in 1..Len(c_models[t]) :
            c_models[t][i] = c_models[t][j])

\* the second half of C11 alone: no call straddles two models
C11_OneModelPerCall ==
    \A t \in Threads : \A i, j \in 1..Len(c_models[t]) :
        c_models[t][i] = c_models[t][j]

\* the candidate models
CandidateModels == {STABLE_MODELS[i] : i \in 1..Len(STABLE_MODELS)}

\* C21: under every interleaving of concurrent initialize and
\* generate_response calls, initialized implies that working_model is one
\* of the candidate models, initialized never goes back to false, and no
\* generation call is made with the model unset.
C21_InitializedImpliesModel ==
    [][/\ initialized => working_model \in CandidateModels
       /\ initialized' => working_model' \in CandidateModels
       /\ initialized => initialized'
       /\ \A t \in Threads : \A i \in 1..Len(c_models'[t]) :
            c_models'[t][i] \in CandidateModels]_vars

\* one thread has made a generation call while the other, which began
\* initialize before the flag was set, is about to write the model
C21_Witness ==
    /\ initialized
    /\ \E t, u \in Threads :
        /\ c_pc[t] = "set_model"
        /\ Len(c_models[u]) > 0

(***************************************************************************)
(* Properties of build_conversation_context, checked under SpecCtx         *)
(***************************************************************************)
\* the stored messages of the session of the call
SessionMessages == {m \in db_messages : m.session = bc.session}

\* the i-th of them in ascending timestamp order
NthMessage(i) ==
    CHOOSE m \in SessionMessages :
        Cardinality({x \in SessionMessages : x.timestamp < m.timestamp}) = i - 1

\* the smaller of two numbers
Min2(a, b) == IF a < b THEN a ELSE b

\* C12: for max_messages >= 1 and a session of n messages the context has
\* 2 * min(n, max_messages) turns: for each of the last min(n, max_messages)
\* messages in timestamp order a user turn with its user text, then a model
\* turn with its reply; no message of another session appears.
C12_LastMessagesAsTurns ==
    (bc.state = "returned" /\ bc.max_messages >= 1)
    => LET n == Cardinality(SessionMessages)
           kept == Min2(n, bc.max_messages)
       IN /\ Len(bc.context) = 2 * kept
          /\ \A j \in 1..kept :
              LET m == NthMessage(n - kept + j) IN
              /\ bc.context[2 * j - 1] =
                    [role |-> "user", parts |-> <<m.user_message>>]
              /\ bc.context[2 * j] =
                    [role |-> "model", parts |-> <<m.ai_response>>]
          /\ \A i \in 1..Len(bc.context) :
              \A m \in db_messages \ SessionMessages :
                  /\ bc.context[i].parts # <<m.user_message>>
                  /\ bc.context[i].parts # <<m.ai_response>>

\* 10 stored messages, max_messages = 4: 8 turns, beside another session
C12_Witness ==
    /\ bc.state = "returned"
    /\ bc.max_messages = 4
    /\ Cardinality(SessionMessages) = 10
    /\ Cardinality(db_messages) > 10
    /\ Len(bc.context) = 8

\* C13: for every max_messages >= 0 the context has at most
\* 2 * max_messages turns.
C13_AtMostTwiceMaxTurns ==
    bc.state = "returned" => Len(bc.context) <= 2 * bc.max_messages

(***************************************************************************)
(* Properties of sanitize_input, checked under SpecSan                     *)
(***************************************************************************)
\* C14 as stated: every input longer than 1200 characters, whitespace-only
\* inputs included, fails with the too-long error.
C14_EveryLongInputTooLong ==
    (si.state = "returned" /\ Len(si.message) > MAX_MESSAGE_LENGTH)
    => si.result = [kind |-> "error", value |-> ERR_TOO_LONG]

\* C14: an input longer than 1200 characters that is not blank after
\* trimming fails with the too-long error; a whitespace-only input of any
\* length fails with the empty-input error; no input of at most 1200
\* characters fails with the too-long error.
C14_LongNonBlankTooLong ==
    si.state = "returned"
    => LET blank == \A i \in 1..Len(si.message) : si.message[i] \in Whitespace
       IN /\ (Len(si.message) > MAX_MESSAGE_LENGTH /\ ~blank)
             => si.result = [kind |-> "error", value |-> ERR_TOO_LONG]
          /\ blank
             => si.result = [kind |-> "error", value |-> ERR_EMPTY_INPUT]
          /\ Len(si.message) <= MAX_MESSAGE_LENGTH
             => si.result # [kind |-> "error", value |-> ERR_TOO_LONG]

\* a text of 1201 characters that is not blank was refused as too long
C14_Witness ==
    /\ si.state = "returned"
    /\ Len(si.message) = MAX_MESSAGE_LENGTH + 1
    /\ \E i \in 1..Len(si.message) : si.message[i] \notin Whitespace
    /\ si.result = [kind |-> "error", value |-> ERR_TOO_LONG]

(***************************************************************************)
(* Properties of the backoff, checked under SpecBo                         *)
(***************************************************************************)
\* C20: the delay slept after failed attempt i lies in [2i+2.5, 2i+3.5]
\* seconds, every delay is longer than the one slept before it, and a call
\* with max_attempts = 5 sleeps at most 4 times and at most 26 seconds in
\* all (delays in tenths of a second).
C20_BackoffDelays ==
    /\ bo.pc = "sleep"
       => /\ bo.delay >= 20 * bo.attempt + 25
          /\ bo.delay <= 20 * bo.attempt + 35
          /\ bo.sleeps > 0 => bo.delay > bo.last_delay
    /\ bo.sleeps > 0 => bo.last_delay <= 20 * (bo.attempt - 1) + 35
    /\ bo.max_attempts = DEFAULT_MAX_ATTEMPTS
       => /\ bo.sleeps <= 4
          /\ bo.slept <= 260

\* a call with max_attempts = 5 has slept 4 times, 26 seconds in all
C20_Witness ==
    /\ bo.pc = "done"
    /\ bo.max_attempts = DEFAULT_MAX_ATTEMPTS
    /\ bo.sleeps = 4
    /\ bo.slept = 260

(***************************************************************************)
(* Properties of chat_api and new_chat, checked under SpecChat             *)
(***************************************************************************)
\* generate_response has raised and chat_api is about to answer
GenerationFailed == pc = "done" /\ chat.state = "generating" /\ result.kind = "raise"

\* generate_response has returned a text and chat_api is about to answer
GenerationSucceeded ==
    pc = "done" /\ chat.state = "generating" /\ result.kind = "return"

\* the text of an error names a quota or billing problem
NamesQuota(text) ==
    Contains(Lower(text), KW_QUOTA) \/ Contains(Lower(text), KW_BILLING)

\* the text of an error names a key or authentication problem
NamesAuth(text) ==
    Contains(Lower(text), KW_KEY) \/ Contains(Lower(text), KW_AUTH)

\* C15 as stated: the error text of a 503 is one of three canned messages.
C15_ThreeCannedMessages ==
    response.status = 503
    => response.error \in {MSG_QUOTA, MSG_AUTH, MSG_TEMPORARY}

\* C15: every failure of generate_response is answered 503 with one of four
\* canned messages: the high-demand message when the handler is unavailable,
\* the temporary-difficulties message when the attempts are used up, and for
\* a fatal error the quota message when its text names quota or billing and
\* the authentication message otherwise.
C15_FourCannedMessages ==
    [][GenerationFailed
       => /\ response'.status = 503
          /\ response'.view = "chat_api"
          /\ response'.error =
                IF result.value = MSG_UNAVAILABLE THEN MSG_HIGH_DEMAND
                ELSE IF result.value = MSG_EXHAUSTED THEN MSG_TEMPORARY
                ELSE IF NamesQuota(result.value) THEN MSG_QUOTA
                ELSE MSG_AUTH
          /\ (result.value \notin {MSG_UNAVAILABLE, MSG_EXHAUSTED}
              => IsFatal(result.value))]_vars

\* the handler was unavailable and the client got the high-demand message
C15_Witness ==
    /\ response.status = 503
    /\ response.cause = MSG_UNAVAILABLE
    /\ response.error = MSG_HIGH_DEMAND

\* the keyword class of an error text
KeywordClass(text) ==
    IF NamesQuota(text) THEN "quota"
    ELSE IF NamesAuth(text) THEN "auth"
    ELSE IF Contains(Lower(text), KW_UNAVAILABLE) THEN "unavailable"
    ELSE "other"

\* the message that stands for a keyword class
CannedFor(class) ==
    CASE class = "quota" -> MSG_QUOTA
      [] class = "auth" -> MSG_AUTH
      [] class = "unavailable" -> MSG_HIGH_DEMAND
      [] OTHER -> MSG_TEMPORARY

\* the error texts written in the program
FixedErrorTexts ==
    {ERR_RATE_LIMITED, ERR_NO_MESSAGE, ERR_INVALID_FORMAT, ERR_UNEXPECTED,
     ERR_EMPTY_INPUT, ERR_TOO_LONG,
     MSG_QUOTA, MSG_AUTH, MSG_HIGH_DEMAND, MSG_TEMPORARY}

\* C16: the body of a 503 depends on the error only through its keyword
\* class, so two errors of one class get the same status and body; it is
\* never the text of the error; every error body is one of the texts written
\* in the program.
C16_NoRawErrorText ==
    /\ response.status \notin {0, 200} => response.error \in FixedErrorTexts
    /\ response.status = 503
       => /\ response.error = CannedFor(KeywordClass(response.cause))
          /\ response.error # response.cause

\* an upstream error about billing was answered with the quota message
C16_Witness ==
    /\ response.status = 503
    /\ response.cause \in UpstreamErrors
    /\ Contains(Lower(response.cause), KW_BILLING)
    /\ response.error = MSG_QUOTA

\* C17: a request that is admitted, valid and answered by the completion
\* client stores exactly one new message, with the sanitized text and the
\* reply, in the session resolved for it, moves that session's updated_at
\* forward, and returns 200 with the non-empty reply and the identifier of
\* that session, which is also the client's token; without a prior token the
\* session is one that did not exist before the request.
C17_SuccessfulExchange ==
    [][GenerationSucceeded
       => /\ \E m \in db_messages' \ db_messages :
                /\ db_messages' = db_messages \cup {m}
                /\ m.session = chat.session
                /\ m.user_message = sanitize_input(chat.raw).value
                /\ m.ai_response = result.value
          /\ \E old \in db_sessions, new \in db_sessions' :
                /\ old.session_id = chat.session
                /\ new.session_id = chat.session
                /\ new.updated_at > old.updated_at
                /\ db_sessions' \ {new} = db_sessions \ {old}
          /\ response'.view = "chat_api"
          /\ response'.client = chat.client
          /\ response'.status = 200
          /\ response'.response = result.value
          /\ response'.response # <<>>
          /\ response'.session_id = chat.session
          /\ session_token'[chat.client] = chat.session
          /\ (chat.prior_token = NoToken
              => chat.session \notin chat.prior_sessions)]_vars

\* a client without a token was answered 200 from a session made for it
C17_Witness ==
    /\ response.view = "chat_api"
    /\ response.status = 200
    /\ response.session_id # OLD_SESSION
    /\ session_token[response.client] = response.session_id
    /\ \E m \in db_messages :
        /\ m.session = response.session_id
        /\ m.ai_response = response.response
        /\ m.user_message = <<"h", "i">>

\* a chat_api request is answered in this step
Answered(statuses) ==
    /\ chat_calls' # chat_calls \/ pc = "done"
    /\ response'.view = "chat_api"
    /\ response'.status \in statuses

Resolves(client) ==
    /\ chat.state = "idle"
    /\ chat'.state = "generating"
    /\ chat'.client = client

\* exactly one session is created in this step, with a new identifier, and
\* becomes the token of the client
CreatesSessionFor(client) ==
    \E new \in db_sessions' \ db_sessions :
        /\ db_sessions' = db_sessions \cup {new}
        /\ new.session_id \notin SessionIds
        /\ new.is_active
        /\ session_token' = [session_token EXCEPT ![client] = new.session_id]

\* C19: a chat request whose token names an active session reuses it and
\* creates none; with no token, or a token that names no active session,
\* exactly one session with a new identifier is created and stored as the
\* token; new_chat always does that; the chat request that follows new_chat
\* uses the new session with an empty history; no session is removed.
C19_SessionResolution ==
    [][/\ \A client \in Clients :
            Resolves(client)
            => IF /\ session_token[client] # NoToken
                  /\ \E row \in db_sessions :
                        /\ row.session_id = session_token[client]
                        /\ row.is_active
               THEN /\ UNCHANGED <<db_sessions, session_token>>
                    /\ chat'.session = session_token[client]
               ELSE /\ CreatesSessionFor(client)
                    /\ chat'.session = session_token'[client]
       /\ (chat_calls' # chat_calls /\ response'.view = "new_chat")
          => /\ CreatesSessionFor(response'.client)
             /\ response'.session_id = session_token'[response'.client]
       /\ (response.view = "new_chat" /\ Resolves(response.client))
          => /\ chat'.session = response.session_id
             /\ messages' = <<>>
       /\ \A row \in db_sessions : row.session_id \in {r.session_id : r \in db_sessions'}
      ]_vars

\* after new_chat the client's next request runs in the new session with an
\* empty history, though its earlier session has exchanges stored
C19_Witness ==
    /\ chat.state = "generating"
    /\ chat.prior_token = chat.session
    /\ chat.session # OLD_SESSION
    /\ messages = <<>>
    /\ db_messages = StoredExchanges
    /\ \E row \in db_sessions : row.session_id = OLD_SESSION /\ row.is_active

\* a chat_api request arrives in this step
ChatRequest == chat_calls' # chat_calls /\ response'.view # "new_chat"

\* C22: rate_limit_check runs before the body is looked at: a request of a
\* client with 6 timestamps stored inside the window is answered 429
\* whatever its body; every other request has its time stored for its
\* client, also when it is answered 400 or 500, and a 503 that follows
\* leaves the stored time in place. So after 6 requests refused as invalid
\* the next request of that client is answered 429.
C22_InvalidRequestsCount ==
    [][/\ ChatRequest
          => LET client == last_check'.ip
                 prior == StoredInWindow(client)
             IN /\ last_check'.at = now
                /\ response'.view = "chat_api" => response'.client = client
                /\ chat'.state = "generating" => chat'.client = client
                /\ IF Len(prior) >= CHAT_MAX_REQUESTS
                   THEN /\ response'.status = 429
                        /\ response'.view = "chat_api"
                        /\ cache' = cache
                   ELSE /\ response'.status # 429
                        /\ cache_key(client) \in DOMAIN cache'
                        /\ cache'[cache_key(client)] =
                              [value |-> Append(prior, now),
                               expires |-> now + CHAT_WINDOW]
       /\ GenerationFailed
          => /\ cache' = cache
             /\ Len(StoredInWindow(chat.client)) >= 1]_vars

\* six requests of one client were admitted, none of them got as far as a
\* session, and its next request was answered 429
C22_Witness ==
    /\ response.view = "chat_api"
    /\ response.status = 429
    /\ Len(StoredInWindow(response.client)) = CHAT_MAX_REQUESTS
    /\ Len(admitted[response.client]) = CHAT_MAX_REQUESTS
    /\ db_sessions = {}
    /\ chat_calls >= 2

(***************************************************************************)
(* A property of sanitize_input that fails, checked under SpecSan          *)
(***************************************************************************)
\* C23: whenever sanitize_input returns instead of raising, the text it
\* returns is not empty, also for inputs that are nothing but tags.
C23_SanitizedNonEmpty ==
    (si.state = "returned" /\ si.result.kind = "ok") => si.result.value # <<>>

====
